---- MODULE Spec2Model ----
(***************************************************************************)
(* Model of the client-side query cache of ContentSyndicate's frontend     *)
(* (frontend/src/hooks/temp-query.ts): the module-level globalCache and    *)
(* subscribers maps, the useQuery hook (one "binding" per mounted hook     *)
(* instance), the useQueryClient operations and the useMutation hook.      *)
(*                                                                         *)
(* Strings are sequences of symbols, so that createCacheKey's join(':')    *)
(* and String.startsWith are computed as the code computes them.  A React  *)
(* render with its effects is folded into the step of the handler whose    *)
(* state change caused it.                                                 *)
(***************************************************************************)
EXTENDS Integers, Sequences, FiniteSets, Bags, TLC

VARIABLES
    globalCache,   \* Map<string, {data, timestamp, error?}>
    subscribers,   \* Map<string, Set<callback>>, a Set iterates in insertion order
    binding,       \* per useQuery instance: options, useState cells, useRef, closures
    inflight,      \* queryFn promises awaited inside refetch
    now,           \* Date.now()
    ticks,         \* number of clock advances so far
    steps,         \* number of operations so far
    last,          \* the operation performed by the last step and what it invoked
    mut,           \* useMutation instance: useState cells isLoading, error
    calls,         \* mutate()/mutateAsync() invocations of that instance
    callCount,     \* number of mutate invocations so far
    authToken,     \* lib/api.ts: the module variable authToken
    Authorization, \* api.defaults.headers.common['Authorization']
    auth_token,    \* localStorage item 'auth_token'
    pathname,      \* window.location.pathname
    requests,      \* requests of the axios instance awaiting their response
    sent           \* Authorization header of the request sent last

vars == <<globalCache, subscribers, binding, inflight, now, ticks, steps, last,
          mut, calls, callCount,
          authToken, Authorization, auth_token, pathname, requests, sent>>

queryVars == <<globalCache, subscribers, binding, inflight, now, ticks, steps, last>>
mutationVars == <<mut, calls, callCount>>
tokenVars == <<authToken, Authorization, auth_token, pathname, requests, sent>>

------------------------------------------------------------------------------
(* Bounds *)

MaxSteps == 4
MaxTicks == 1
MaxCalls == 2

(* Program constant *)
cacheExpiry == 5 * 60 * 1000

------------------------------------------------------------------------------
(* Values *)

Undefined == "undefined"
Null == "null"
EmptyArray == "[]"
Values == {"v1", "v2"}
Errors == {"e1"}

(* Strings: a string is a sequence of symbols; a query key segment is a    *)
(* string or null.                                                         *)
NullSeg == <<"NULL">>
Colon == ":"
newsletters == <<"newsletters">>
sources == <<"sources">>
users == <<"users">>

Bindings == {"b1", "b2"}

\* the keys the query client is called with
QueryKeys ==
    { <<newsletters, <<"4">>>>,
      <<newsletters, <<"4", "2">>>>,
      <<users, NullSeg, <<"4">>>> }

\* the keys the useQuery instances are mounted with
BindingKeys ==
    { <<newsletters, <<"4", "2">>>>,
      <<users, NullSeg, <<"4">>>> }

\* the queryKey patterns invalidateQueries is called with
Patterns ==
    { <<newsletters>>,
      <<newsletters, <<"4">>>>,
      <<newsletters, <<"4", "2">>>>,
      <<NullSeg, users>> }

\* Array.prototype.filter(Boolean): drops null and the empty string
RECURSIVE FilterBoolean(_)
FilterBoolean(queryKey) ==
    IF queryKey = <<>> THEN <<>>
    ELSE IF Head(queryKey) = NullSeg \/ Head(queryKey) = <<>>
         THEN FilterBoolean(Tail(queryKey))
         ELSE <<Head(queryKey)>> \o FilterBoolean(Tail(queryKey))

\* Array.prototype.join(':')
RECURSIVE Join(_)
Join(segs) ==
    IF segs = <<>> THEN <<>>
    ELSE IF Len(segs) = 1 THEN Head(segs)
    ELSE Head(segs) \o <<Colon>> \o Join(Tail(segs))

createCacheKey(queryKey) == Join(FilterBoolean(queryKey))

\* String.prototype.startsWith
startsWith(str, prefix) ==
    /\ Len(prefix) <= Len(str)
    /\ SubSeq(str, 1, Len(prefix)) = prefix

\* useNewsletters and useNewsletter: the signed-in user's id (user?.id), the
\* ids of the newsletters (0 stands for a result without an id), and the keys
\* of the user's list and of one newsletter
single == <<"single">>
UserId == <<"4">>
NewsletterIds == {0, 1, 2}
Digits == <<"0", "1", "2">>

\* Number.prototype.toString of a one-digit id
toString(id) == <<Digits[id + 1]>>

listKey(uid) == <<newsletters, uid>>
singleKey(uid, id) == <<newsletters, uid, single, toString(id)>>

\* the keys useNewsletter instances are mounted with
SingleKeys == { singleKey(UserId, id) : id \in NewsletterIds \ {0} }

CacheKeys == { createCacheKey(k) : k \in QueryKeys \cup SingleKeys }

------------------------------------------------------------------------------
(* The cache store *)

NoError == "noerror"

Entry(d, t, e) == [data |-> d, timestamp |-> t, error |-> e]

\* Map.prototype.set
MapSet(m, k, v) == [x \in (DOMAIN m) \cup {k} |-> IF x = k THEN v ELSE m[x]]

\* Map.prototype.delete
MapDelete(m, ks) == [x \in (DOMAIN m) \ ks |-> m[x]]

EmptyMap == [x \in {} |-> 0]

\* variant: an entry that holds an error does not count as fresh
isFreshUnlessError(cache, cacheKey, t) ==
    /\ cacheKey \in DOMAIN cache
    /\ t - cache[cacheKey].timestamp < cacheExpiry
    /\ cache[cacheKey].error = "noerror"

\* cached && Date.now() - cached.timestamp < cacheExpiry
isFresh(cache, cacheKey, t) ==
    /\ cacheKey \in DOMAIN cache
    /\ t - cache[cacheKey].timestamp < cacheExpiry

\* cached.error || null
errorOrNull(entry) == IF entry.error = NoError THEN Null ELSE entry.error

------------------------------------------------------------------------------
(* useQuery: one binding per hook instance *)

NoDeps == <<>>

\* the closure registered in subscribers: the instance it belongs to and the
\* cacheKey and options.enabled of the render in which it was created
Closure(b, cacheKey, optionsEnabled) ==
    [b |-> b, cacheKey |-> cacheKey, enabled |-> optionsEnabled]

NoCallback == Closure("none", <<>>, FALSE)

\* state of a hook instance that is not mounted
Unmounted ==
    [mounted |-> FALSE, queryKey |-> <<>>, enabled |-> FALSE,
     data |-> Undefined, isLoading |-> FALSE, error |-> Null,
     forceUpdateRef |-> 0, deps |-> NoDeps, callback |-> NoCallback]

\* a handler runs on a context: the binding's cells and the queryFn
\* invocations the handler has made so far
Ctx(s) == [s |-> s, started |-> <<>>]

\* const refetch = async () => {...} up to the await of options.queryFn()
refetch(c, optionsEnabled, cacheKey, cause) ==
    IF optionsEnabled
    THEN [c EXCEPT !.s.isLoading = TRUE,
                   !.s.error = Null,
                   !.started = Append(@, [cacheKey |-> cacheKey, cause |-> cause])]
    ELSE c

\* variant: an entry whose age equals cacheExpiry still counts as fresh
callbackInclusive(c, cb, cache, t) ==
    LET k == cb.cacheKey
        c1 == [c EXCEPT !.s.forceUpdateRef = @ + 1]
    IN  IF k \in DOMAIN cache /\ t - cache[k].timestamp <= cacheExpiry
        THEN [c1 EXCEPT !.s.data = cache[k].data,
                        !.s.error = errorOrNull(cache[k])]
        ELSE IF cb.enabled
             THEN refetch(c1, cb.enabled, k, "callback")
             ELSE c1

\* the subscriber callback created by the subscription effect; options and
\* refetch are those of the render in which the effect last ran
callback(c, cb, cache, t) ==
    LET k == cb.cacheKey
        c1 == [c EXCEPT !.s.forceUpdateRef = @ + 1]
    IN  IF isFresh(cache, k, t)
        THEN [c1 EXCEPT !.s.data = cache[k].data,
                        !.s.error = errorOrNull(cache[k])]
        ELSE IF cb.enabled
             THEN refetch(c1, cb.enabled, k, "callback")
             ELSE c1

\* variant: the second effect without its cache check
mountEffectNoCache(c, cache, t) ==
    LET k == createCacheKey(c.s.queryKey)
        key == IF c.s.queryKey = <<>> THEN NullSeg ELSE c.s.queryKey[1]
    IN  IF (key = sources \/ key = newsletters) /\ c.s.data = Undefined
        THEN [c EXCEPT !.s.data = EmptyArray]
        ELSE IF c.s.enabled
             THEN refetch(c, c.s.enabled, k, "effect")
             ELSE c

\* body of the second effect (check cache first, then auto-fetch)
mountEffect(c, cache, t) ==
    LET k == createCacheKey(c.s.queryKey)
        key == IF c.s.queryKey = <<>> THEN NullSeg ELSE c.s.queryKey[1]
    IN  IF isFresh(cache, k, t)
        THEN [c EXCEPT !.s.data = cache[k].data,
                       !.s.error = errorOrNull(cache[k])]
        ELSE IF (key = sources \/ key = newsletters) /\ c.s.data = Undefined
             THEN [c EXCEPT !.s.data = EmptyArray]
             ELSE IF c.s.enabled
                  THEN refetch(c, c.s.enabled, k, "effect")
                  ELSE c

\* dependency array of the second effect, evaluated during a render
Deps(s) == <<createCacheKey(s.queryKey), s.enabled, s.forceUpdateRef>>

\* a render followed by its effects: the second effect runs when its
\* dependency array differs from the one of the previous render
render(c, cache, t) ==
    IF Deps(c.s) # c.s.deps
    THEN mountEffect([c EXCEPT !.s.deps = Deps(c.s)], cache, t)
    ELSE c

\* React re-renders an instance when a useState cell changed
stateChanged(s0, s1) ==
    \/ s0.data # s1.data
    \/ s0.isLoading # s1.isLoading
    \/ s0.error # s1.error

afterHandler(s0, c, cache, t) ==
    IF stateChanged(s0, c.s) THEN render(c, cache, t) ELSE c

------------------------------------------------------------------------------
(* Steps: a handler runs to completion, then React renders the instances   *)
(* whose state changed.  W is the bindings and the queryFn invocations     *)
(* made so far in the step.                                                *)

BindingOrder == <<"b1", "b2">>

Tag(b, started) ==
    [i \in 1..Len(started) |->
        [b |-> b, cacheKey |-> started[i].cacheKey, cause |-> started[i].cause]]

World(bind, started) == [binding |-> bind, started |-> started]

\* a handler or effect of instance b ran and produced context c
Commit(W, b, c) ==
    World([W.binding EXCEPT ![b] = c.s], W.started \o Tag(b, c.started))

\* subs.forEach(callback => callback()): setState on an instance that has
\* unmounted is ignored by React
RECURSIVE runCallbacks(_, _, _, _)
runCallbacks(cbs, W, cache, t) ==
    IF cbs = <<>> THEN W
    ELSE LET cb == Head(cbs)
             s == W.binding[cb.b]
             c == callback(Ctx(s), cb, cache, t)
             W1 == IF s.mounted THEN Commit(W, cb.b, c)
                   ELSE World(W.binding, W.started \o Tag(cb.b, c.started))
         IN  runCallbacks(Tail(cbs), W1, cache, t)

\* the renders that follow a handler
RECURSIVE renderChanged(_, _, _, _, _)
renderChanged(order, bind0, W, cache, t) ==
    IF order = <<>> THEN W
    ELSE LET b == Head(order)
             W1 == IF stateChanged(bind0[b], W.binding[b])
                   THEN Commit(W, b, render(Ctx(W.binding[b]), cache, t))
                   ELSE W
         IN  renderChanged(Tail(order), bind0, W1, cache, t)

\* number of queryFn invocations instance b made in a step
RECURSIVE CountOf(_, _)
CountOf(started, b) ==
    IF started = <<>> THEN 0
    ELSE (IF Head(started).b = b THEN 1 ELSE 0) + CountOf(Tail(started), b)

\* number of times a callback of instance b is in a sequence of callbacks
RECURSIVE Occurrences(_, _)
Occurrences(names, b) ==
    IF names = <<>> THEN 0
    ELSE (IF Head(names) = b THEN 1 ELSE 0) + Occurrences(Tail(names), b)

RECURSIVE SeqToBag(_)
SeqToBag(seq) ==
    IF seq = <<>> THEN EmptyBag
    ELSE SetToBag({Head(seq)}) (+) SeqToBag(Tail(seq))

RECURSIVE SetToSeq(_)
SetToSeq(S) ==
    IF S = {} THEN <<>>
    ELSE LET x == CHOOSE y \in S : TRUE IN <<x>> \o SetToSeq(S \ {x})

RECURSIVE Flatten(_, _)
Flatten(keys, f) ==
    IF keys = <<>> THEN <<>> ELSE f[Head(keys)] \o Flatten(Tail(keys), f)

CacheKeySeq == SetToSeq(CacheKeys)

Names(cbs) == [i \in 1..Len(cbs) |-> cbs[i].b]

NoneNotified == [k \in CacheKeys |-> <<>>]

\* cause and replaced are set by Resolve: what started the fetch that
\* settled, and the data of the entry its result replaced
Last(op, b, key, arg, notified, W) ==
    [op |-> op, b |-> b, key |-> key, arg |-> arg,
     notified |-> [k \in CacheKeys |-> Names(notified[k])],
     started |-> W.started,
     cause |-> Null, replaced |-> Null]


\* the part of a step common to all operations of the query side
Finish(W, cache, subs, pending, l) ==
    /\ steps < MaxSteps
    /\ steps' = steps + 1
    /\ globalCache' = cache
    /\ subscribers' = subs
    /\ binding' = W.binding
    /\ inflight' = pending (+) SeqToBag(W.started)
    /\ last' = l
    /\ UNCHANGED <<now, ticks, mutationVars, tokenVars>>

\* a store operation that invokes the callbacks notified[k] of each key k
StoreOp(op, key, arg, cache, notified) ==
    LET W0 == World(binding, <<>>)
        W1 == runCallbacks(Flatten(CacheKeySeq, notified), W0, cache, now)
        W2 == renderChanged(BindingOrder, binding, W1, cache, now)
    IN  Finish(W2, cache, subscribers, inflight, Last(op, "none", key, arg, notified, W2))

------------------------------------------------------------------------------
(* useQueryClient *)

SubsOf(subs, k) == IF k \in DOMAIN subs THEN subs[k] ELSE <<>>

NoQueryKey == <<<<"NOKEY">>>>

\* the data setQueryData is called with
SetValues == {"v1", Null}

\* variant: a key matches only when it equals the joined pattern
invalidateCacheExact(pattern, cache, subs) ==
    IF pattern = NoQueryKey
    THEN [cache |-> EmptyMap,
          notified |-> [k \in CacheKeys |-> SubsOf(subs, k)]]
    ELSE LET patternKey == createCacheKey(FilterBoolean(pattern))
             keysToRemove == { key \in DOMAIN cache : key = patternKey }
         IN  [cache |-> MapDelete(cache, keysToRemove),
              notified |-> [k \in CacheKeys |->
                              IF k \in keysToRemove THEN SubsOf(subs, k) ELSE <<>>]]

\* what invalidateCache leaves in the store and whom it calls
invalidateCache(pattern, cache, subs) ==
    IF pattern = NoQueryKey
    THEN [cache |-> EmptyMap,
          notified |-> [k \in CacheKeys |-> SubsOf(subs, k)]]
    ELSE LET patternKey == createCacheKey(FilterBoolean(pattern))
             keysToRemove == { key \in DOMAIN cache : startsWith(key, patternKey) }
         IN  [cache |-> MapDelete(cache, keysToRemove),
              notified |-> [k \in CacheKeys |->
                              IF k \in keysToRemove THEN SubsOf(subs, k) ELSE <<>>]]

invalidateQueries(pattern) ==
    LET r == invalidateCache(pattern, globalCache, subscribers)
    IN  StoreOp("invalidateQueries", pattern, Null, r.cache, r.notified)

\* variant: the subscribers of every key that starts with the key are called
setQueryDataRelated(queryKey, d) ==
    LET cacheKey == createCacheKey(queryKey)
    IN  StoreOp("setQueryData", queryKey, d,
                MapSet(globalCache, cacheKey, Entry(d, now, NoError)),
                [k \in CacheKeys |->
                    IF startsWith(k, cacheKey) THEN SubsOf(subscribers, k) ELSE <<>>])

setQueryData(queryKey, d) ==
    LET cacheKey == createCacheKey(queryKey)
    IN  StoreOp("setQueryData", queryKey, d,
                MapSet(globalCache, cacheKey, Entry(d, now, NoError)),
                [k \in CacheKeys |->
                    IF k = cacheKey THEN SubsOf(subscribers, k) ELSE <<>>])

\* variant: the subscribers of the removed key are called
removeQueriesNotifying(queryKey) ==
    StoreOp("removeQueries", queryKey, Null,
            MapDelete(globalCache, {createCacheKey(queryKey)}),
            [k \in CacheKeys |->
                IF k = createCacheKey(queryKey) THEN SubsOf(subscribers, k) ELSE <<>>])

removeQueries(queryKey) ==
    StoreOp("removeQueries", queryKey, Null,
            MapDelete(globalCache, {createCacheKey(queryKey)}), NoneNotified)

\* variant: only the subscribers of keys that hold an entry are called
clearStoredOnly ==
    StoreOp("clear", NoQueryKey, Null, EmptyMap,
            [k \in CacheKeys |->
                IF k \in DOMAIN globalCache THEN SubsOf(subscribers, k) ELSE <<>>])

clear ==
    StoreOp("clear", NoQueryKey, Null, EmptyMap,
            [k \in CacheKeys |-> SubsOf(subscribers, k)])

------------------------------------------------------------------------------
(* Lifecycle of a useQuery instance *)

\* variant: the new callback is iterated before the ones already in the set
subscribeFirst(subs, cb) ==
    MapSet(subs, cb.cacheKey, <<cb>> \o SubsOf(subs, cb.cacheKey))

\* first effect: subscribers.get(cacheKey)!.add(callback)
subscribe(subs, cb) ==
    MapSet(subs, cb.cacheKey, Append(SubsOf(subs, cb.cacheKey), cb))

RECURSIVE RemoveFirst(_, _)
RemoveFirst(seq, x) ==
    IF seq = <<>> THEN <<>>
    ELSE IF Head(seq) = x THEN Tail(seq)
    ELSE <<Head(seq)>> \o RemoveFirst(Tail(seq), x)

\* variant: the set of a key stays in the map when it became empty
cleanupKeepEmpty(subs, cb) ==
    IF cb.cacheKey \notin DOMAIN subs THEN subs
    ELSE MapSet(subs, cb.cacheKey, RemoveFirst(subs[cb.cacheKey], cb))

\* cleanup of the first effect
cleanup(subs, cb) ==
    IF cb.cacheKey \notin DOMAIN subs THEN subs
    ELSE LET rest == RemoveFirst(subs[cb.cacheKey], cb)
         IN  IF Len(rest) = 0
             THEN MapDelete(subs, {cb.cacheKey})
             ELSE MapSet(subs, cb.cacheKey, rest)

HasInflight(b) == \E f \in BagToSet(inflight) : f.b = b

\* a new instance takes the first slot that is free
Free(b) == ~binding[b].mounted /\ ~HasInflight(b)

FirstFree(b) ==
    /\ Free(b)
    /\ \A i \in 1..Len(BindingOrder) :
          BindingOrder[i] = b =>
              \A j \in 1..(i - 1) : ~Free(BindingOrder[j])

\* the component mounts: both effects run
Mount(b, queryKey, en) ==
    /\ FirstFree(b)
    /\ LET cb == Closure(b, createCacheKey(queryKey), en)
           s == [Unmounted EXCEPT !.mounted = TRUE, !.queryKey = queryKey,
                                  !.enabled = en, !.callback = cb]
           W == Commit(World(binding, <<>>), b, render(Ctx(s), globalCache, now))
       IN  Finish(W, globalCache, subscribe(subscribers, cb), inflight,
                  Last("mount", b, queryKey, en, NoneNotified, W))

\* the component renders with other options: the first effect re-runs when
\* cacheKey changed, the second when cacheKey or options.enabled changed
SetOptions(b, queryKey, en) ==
    /\ binding[b].mounted
    /\ <<queryKey, en>> # <<binding[b].queryKey, binding[b].enabled>>
    /\ LET old == binding[b].callback
           cacheKey == createCacheKey(queryKey)
           resub == cacheKey # createCacheKey(binding[b].queryKey)
           cb == IF resub THEN Closure(b, cacheKey, en) ELSE old
           s == [binding[b] EXCEPT !.queryKey = queryKey, !.enabled = en,
                                   !.callback = cb]
           W == Commit(World(binding, <<>>), b, render(Ctx(s), globalCache, now))
           subs == IF resub THEN subscribe(cleanup(subscribers, old), cb)
                   ELSE subscribers
       IN  Finish(W, globalCache, subs, inflight,
                  Last("setOptions", b, queryKey, en, NoneNotified, W))

\* variant: the component unmounts without the cleanup of the first effect
UnmountKeepsCallback(b) ==
    /\ binding[b].mounted
    /\ LET W == World([binding EXCEPT ![b] = Unmounted], <<>>)
       IN  Finish(W, globalCache, subscribers, inflight,
                  Last("unmount", b, binding[b].queryKey, Null, NoneNotified, W))

\* the component unmounts: the cleanup of the first effect runs
Unmount(b) ==
    /\ binding[b].mounted
    /\ LET W == World([binding EXCEPT ![b] = Unmounted], <<>>)
       IN  Finish(W, globalCache, cleanup(subscribers, binding[b].callback), inflight,
                  Last("unmount", b, binding[b].queryKey, Null, NoneNotified, W))

\* the component renders again for a reason of its parent's
Rerender(b) ==
    /\ binding[b].mounted
    /\ Deps(binding[b]) # binding[b].deps
    /\ LET W == Commit(World(binding, <<>>), b,
                       render(Ctx(binding[b]), globalCache, now))
       IN  Finish(W, globalCache, subscribers, inflight,
                  Last("rerender", b, binding[b].queryKey, Null, NoneNotified, W))

\* the consumer calls the refetch of the latest render
Refetch(b) ==
    /\ binding[b].mounted
    /\ LET s == binding[b]
           c == refetch(Ctx(s), s.enabled, createCacheKey(s.queryKey), "refetch")
           W == Commit(World(binding, <<>>), b,
                       afterHandler(s, c, globalCache, now))
       IN  Finish(W, globalCache, subscribers, inflight,
                  Last("refetch", b, s.queryKey, Null, NoneNotified, W))

------------------------------------------------------------------------------
(* Settling of an awaited queryFn: the rest of refetch *)

Outcomes == Values \cup Errors

\* try { globalCache.set(...); setData(result) }
\* catch { globalCache.set(...); setError(error) } finally { setIsLoading(false) }
settle(s, outcome) ==
    IF outcome \in Errors
    THEN [s EXCEPT !.error = outcome, !.isLoading = FALSE]
    ELSE [s EXCEPT !.data = outcome, !.isLoading = FALSE]

settledEntry(outcome, t) ==
    IF outcome \in Errors
    THEN Entry(Undefined, t, outcome)
    ELSE Entry(outcome, t, NoError)

Absent == "absent"

\* the data stored under cacheKey, for the record of the step
StoredData(cache, cacheKey) ==
    IF cacheKey \in DOMAIN cache THEN cache[cacheKey].data ELSE Absent

\* variant: the result is dropped when the key already holds an entry
ResolveUnlessStored(f, outcome) ==
    /\ BagIn(f, inflight)
    /\ LET s == binding[f.b]
           cache == IF f.cacheKey \in DOMAIN globalCache THEN globalCache
                    ELSE MapSet(globalCache, f.cacheKey, settledEntry(outcome, now))
           W0 == World(binding, <<>>)
           W == IF s.mounted
                THEN Commit(W0, f.b, afterHandler(s, Ctx(settle(s, outcome)), cache, now))
                ELSE W0
       IN  Finish(W, cache, subscribers, inflight (-) SetToBag({f}),
                  [Last("resolve", f.b, f.cacheKey, outcome, NoneNotified, W)
                      EXCEPT !.cause = f.cause,
                             !.replaced = StoredData(globalCache, f.cacheKey)])

Resolve(f, outcome) ==
    /\ BagIn(f, inflight)
    /\ LET s == binding[f.b]
           cache == MapSet(globalCache, f.cacheKey, settledEntry(outcome, now))
           W0 == World(binding, <<>>)
           W == IF s.mounted
                THEN Commit(W0, f.b, afterHandler(s, Ctx(settle(s, outcome)), cache, now))
                ELSE W0
       IN  Finish(W, cache, subscribers, inflight (-) SetToBag({f}),
                  [Last("resolve", f.b, f.cacheKey, outcome, NoneNotified, W)
                      EXCEPT !.cause = f.cause,
                             !.replaced = StoredData(globalCache, f.cacheKey)])

------------------------------------------------------------------------------
(* The clock *)

TickSteps == {cacheExpiry - 1, cacheExpiry}

Tick(d) ==
    /\ ticks < MaxTicks
    /\ steps < MaxSteps
    /\ steps' = steps + 1
    /\ now' = now + d
    /\ ticks' = ticks + 1
    /\ last' = Last("tick", "none", <<>>, d, NoneNotified, World(binding, <<>>))
    /\ UNCHANGED <<globalCache, subscribers, binding, inflight, mutationVars, tokenVars>>

------------------------------------------------------------------------------
(* useMutation: one hook instance; each mutate() call runs to its await of *)
(* options.mutationFn and continues when that promise settles              *)

Results == {"r1", "r2"}
WriteErrors == {"conflict"}

\* what an optional callback of the options does when it is invoked
Behaviours == {"absent", "returns", "throws"}

Fulfilled(v) == [status |-> "fulfilled", value |-> v]
Rejected(e) == [status |-> "rejected", value |-> e]
Pending == [status |-> "pending", value |-> Null]

\* const mutate = async (data) => {...} up to the await
startMutate(m) == [m EXCEPT !.isLoading = TRUE, !.error = Null]

\* variant: the catch block does not re-throw
afterMutationFnSwallow(m, outcome, onSuccess, onError) ==
    IF outcome \in Results
    THEN [m |-> [m EXCEPT !.isLoading = FALSE],
          onSuccessCalls |-> IF onSuccess # "absent" THEN <<outcome>> ELSE <<>>,
          onErrorCalls |-> <<>>,
          returned |-> Fulfilled(outcome)]
    ELSE [m |-> [m EXCEPT !.error = outcome, !.isLoading = FALSE],
          onSuccessCalls |-> <<>>,
          onErrorCalls |-> IF onError # "absent" THEN <<outcome>> ELSE <<>>,
          returned |-> Fulfilled(Undefined)]

\* variant: onSuccess is called without a try block of its own, so that what
\* it throws reaches the catch block of mutate
afterMutationFnNoInnerTry(m, outcome, onSuccess, onError) ==
    IF outcome \in Results /\ onSuccess # "throws"
    THEN [m |-> [m EXCEPT !.isLoading = FALSE],
          onSuccessCalls |-> IF onSuccess # "absent" THEN <<outcome>> ELSE <<>>,
          onErrorCalls |-> <<>>,
          returned |-> Fulfilled(outcome)]
    ELSE LET error == IF outcome \in Results THEN "boom" ELSE outcome
         IN  [m |-> [m EXCEPT !.error = error, !.isLoading = FALSE],
              onSuccessCalls |-> IF outcome \in Results THEN <<outcome>> ELSE <<>>,
              onErrorCalls |-> IF onError # "absent" THEN <<error>> ELSE <<>>,
              returned |-> Rejected(error)]

\* the rest of mutate once mutationFn has settled with outcome; r is the
\* runner's cells, the callback invocations and the promise mutate returned
afterMutationFn(m, outcome, onSuccess, onError) ==
    IF outcome \in Results
    THEN \* try { onSuccess(result) } catch { log }; return result
         [m |-> [m EXCEPT !.isLoading = FALSE],
          onSuccessCalls |-> IF onSuccess # "absent" THEN <<outcome>> ELSE <<>>,
          onErrorCalls |-> <<>>,
          returned |-> Fulfilled(outcome)]
    ELSE \* setError(error); try { onError(error) } catch { log }; throw error
         [m |-> [m EXCEPT !.error = outcome, !.isLoading = FALSE],
          onSuccessCalls |-> <<>>,
          onErrorCalls |-> IF onError # "absent" THEN <<outcome>> ELSE <<>>,
          returned |-> Rejected(outcome)]

\* mutateAsync awaits mutate and returns or re-throws what it gave
mutateAsync(returned) == returned

MutInit ==
    /\ mut = [isLoading |-> FALSE, error |-> Null]
    /\ calls = <<>>
    /\ callCount = 0

Mutate(fn) ==
    /\ callCount < MaxCalls
    /\ mut' = startMutate(mut)
    /\ calls' = Append(calls, [fn |-> fn, outcome |-> Null,
                               onSuccess |-> "absent", onError |-> "absent",
                               onSuccessCalls |-> <<>>, onErrorCalls |-> <<>>,
                               returned |-> Pending, order |-> 0])
    /\ callCount' = callCount + 1
    /\ UNCHANGED <<queryVars, tokenVars>>

Settled(i) == calls[i].returned # Pending

NumSettled == Cardinality({i \in 1..Len(calls) : Settled(i)})

Settle(i, outcome, onSuccess, onError) ==
    /\ i \in 1..Len(calls)
    /\ ~Settled(i)
    /\ LET r == afterMutationFn(mut, outcome, onSuccess, onError)
       IN  /\ mut' = r.m
           /\ calls' = [calls EXCEPT ![i] =
                  [fn |-> calls[i].fn, outcome |-> outcome,
                   onSuccess |-> onSuccess, onError |-> onError,
                   onSuccessCalls |-> r.onSuccessCalls,
                   onErrorCalls |-> r.onErrorCalls,
                   returned |-> IF calls[i].fn = "mutateAsync"
                                THEN mutateAsync(r.returned) ELSE r.returned,
                   order |-> NumSettled + 1]]
    /\ UNCHANGED <<callCount, queryVars, tokenVars>>

MutationNext ==
    \/ \E fn \in {"mutate", "mutateAsync"} : Mutate(fn)
    \/ \E i \in 1..MaxCalls, o \in Results \cup WriteErrors,
          onS \in Behaviours, onE \in Behaviours : Settle(i, o, onS, onE)

------------------------------------------------------------------------------
(* lib/api.ts: the auth token of the axios instance *)

Tokens == {"t1", "t2"}
EmptyString == ""
NoHeader == <<>>
LoginPath == "/auth/login"
DashboardPath == "/dashboard"

\* `Bearer ${token}`
Bearer(token) == <<"Bearer ", token>>

\* if (token): null and the empty string are falsy
Truthy(token) == token # Null /\ token # EmptyString

\* the state of a page on which nobody signed in
SignedOut ==
    /\ authToken = Null
    /\ Authorization = NoHeader
    /\ auth_token = Null
    /\ pathname = LoginPath
    /\ requests = 0
    /\ sent = NoHeader

\* the record of a step of the token side
TokenStep(op, arg) ==
    /\ steps < MaxSteps
    /\ steps' = steps + 1
    /\ last' = Last(op, "none", <<>>, arg, NoneNotified, World(binding, <<>>))
    /\ UNCHANGED <<globalCache, subscribers, binding, inflight, now, ticks,
                   mutationVars>>

\* what setAuthToken(token) leaves in the module variable, the default
\* header and localStorage
tokenSet(token) ==
    IF Truthy(token)
    THEN [authToken |-> token, Authorization |-> Bearer(token), auth_token |-> token]
    ELSE [authToken |-> token, Authorization |-> NoHeader, auth_token |-> Null]

SetToken(op, token) ==
    /\ authToken' = tokenSet(token).authToken
    /\ Authorization' = tokenSet(token).Authorization
    /\ auth_token' = tokenSet(token).auth_token
    /\ UNCHANGED <<pathname, requests, sent>>
    /\ TokenStep(op, token)

setAuthToken(token) == SetToken("setAuthToken", token)

clearAuthToken == SetToken("clearAuthToken", Null)

\* the Authorization header a request leaves with: the request interceptor
\* sets it from localStorage, otherwise the default header of the instance
\* stays in the merged config
requestHeader ==
    IF Truthy(auth_token) THEN Bearer(auth_token) ELSE Authorization

\* a request is sent through the request interceptor
Send ==
    /\ requests < MaxCalls
    /\ requests' = requests + 1
    /\ sent' = requestHeader
    /\ UNCHANGED <<authToken, Authorization, auth_token, pathname>>
    /\ TokenStep("send", Null)

Statuses == {200, 401}

\* the page loads: the module is evaluated anew and the AuthProvider's
\* initialization effect passes the stored token to setAuthToken
loaded(stored) ==
    IF Truthy(stored) THEN tokenSet(stored)
    ELSE [authToken |-> Null, Authorization |-> NoHeader, auth_token |-> stored]

\* a response passes the response interceptor; on 401 outside the login
\* page the assignment to window.location.href loads the login page
Respond(status) ==
    /\ requests > 0
    /\ IF status = 401
       THEN IF pathname # LoginPath
            THEN /\ authToken' = loaded(Null).authToken
                 /\ Authorization' = loaded(Null).Authorization
                 /\ auth_token' = loaded(Null).auth_token
                 /\ pathname' = LoginPath
                 /\ requests' = 0
                 /\ sent' = NoHeader
            ELSE /\ auth_token' = Null
                 /\ requests' = requests - 1
                 /\ UNCHANGED <<authToken, Authorization, pathname, sent>>
       ELSE /\ requests' = requests - 1
            /\ UNCHANGED <<authToken, Authorization, auth_token, pathname, sent>>
    /\ TokenStep("respond", status)

\* router.push: the path changes and the page is not loaded anew
Push(path) ==
    /\ pathname # path
    /\ pathname' = path
    /\ UNCHANGED <<authToken, Authorization, auth_token, requests, sent>>
    /\ TokenStep("push", path)

------------------------------------------------------------------------------
(* The query cache and its bindings *)

QueryInit ==
    /\ globalCache = EmptyMap
    /\ subscribers = EmptyMap
    /\ binding = [b \in Bindings |-> Unmounted]
    /\ inflight = EmptyBag
    /\ now = 0
    /\ ticks = 0
    /\ steps = 0
    /\ last = Last("init", "none", <<>>, Null, NoneNotified, World(binding, <<>>))

Init == QueryInit /\ MutInit /\ SignedOut

Next ==
    \/ \E b \in Bindings, k \in BindingKeys, en \in BOOLEAN : Mount(b, k, en)
    \/ \E b \in Bindings, k \in BindingKeys, en \in BOOLEAN : SetOptions(b, k, en)
    \/ \E b \in Bindings : Unmount(b)
    \/ \E b \in Bindings : Rerender(b)
    \/ \E b \in Bindings : Refetch(b)
    \/ \E f \in BagToSet(inflight), o \in Outcomes : Resolve(f, o)
    \/ \E k \in QueryKeys, d \in SetValues : setQueryData(k, d)
    \/ \E p \in Patterns \cup {NoQueryKey} : invalidateQueries(p)
    \/ \E k \in QueryKeys : removeQueries(k)
    \/ clear
    \/ \E d \in TickSteps : Tick(d)

Spec == Init /\ [][Next]_vars

------------------------------------------------------------------------------
(* A page with one hook instance, from its mount on: the runs of Spec that *)
(* begin with the mount of b1 and in which it stays the only instance      *)

MountedInit ==
    /\ \E q \in BindingKeys, en \in BOOLEAN :
          LET cb == Closure("b1", createCacheKey(q), en)
              s == [Unmounted EXCEPT !.mounted = TRUE, !.queryKey = q,
                                     !.enabled = en, !.callback = cb]
              W == Commit(World([b \in Bindings |-> Unmounted], <<>>), "b1",
                          render(Ctx(s), EmptyMap, 0))
          IN  /\ binding = W.binding
              /\ subscribers = subscribe(EmptyMap, cb)
              /\ inflight = SeqToBag(W.started)
              /\ last = Last("mount", "b1", q, en, NoneNotified, W)
    /\ globalCache = EmptyMap
    /\ now = 0
    /\ ticks = 0
    /\ steps = 0
    /\ MutInit
    /\ SignedOut

OneInstanceNext ==
    \/ \E k \in BindingKeys, en \in BOOLEAN : SetOptions("b1", k, en)
    \/ Rerender("b1")
    \/ Refetch("b1")
    \/ \E f \in BagToSet(inflight), o \in Outcomes : Resolve(f, o)
    \/ \E k \in QueryKeys, d \in SetValues : setQueryData(k, d)
    \/ \E p \in Patterns \cup {NoQueryKey} : invalidateQueries(p)
    \/ \E k \in QueryKeys : removeQueries(k)
    \/ clear
    \/ \E d \in TickSteps : Tick(d)

OneInstanceSpec == MountedInit /\ [][OneInstanceNext]_vars

------------------------------------------------------------------------------
(* The freshness test of the subscriber callback and of the second effect, *)
(* applied to entries of chosen ages: one instance is mounted on a key     *)
(* whose entry another instance's fetch stored at time T                   *)

StoredAt == {0, 7}
Ages == {0, cacheExpiry - 1, cacheExpiry, cacheExpiry + 1}

\* the callbacks registered under the key run against the store as it is
Notify(queryKey) ==
    /\ createCacheKey(queryKey) \in DOMAIN subscribers
    /\ StoreOp("notify", queryKey, Null, globalCache,
               [k \in CacheKeys |->
                   IF k = createCacheKey(queryKey)
                   THEN SubsOf(subscribers, k) ELSE <<>>])

FreshInit ==
    /\ \E q \in BindingKeys, o \in Outcomes, T \in StoredAt, age \in Ages,
          en \in BOOLEAN, shown \in BOOLEAN :
          LET cb == Closure("b1", createCacheKey(q), en)
              d == IF shown THEN "v2"
                   ELSE IF q[1] = newsletters THEN EmptyArray ELSE Undefined
              s0 == [Unmounted EXCEPT !.mounted = TRUE, !.queryKey = q,
                                      !.enabled = en, !.callback = cb,
                                      !.data = d]
              s == [s0 EXCEPT !.deps = Deps(s0)]
          IN  /\ globalCache = MapSet(EmptyMap, createCacheKey(q), settledEntry(o, T))
              /\ now = T + age
              /\ binding = [b \in Bindings |-> IF b = "b1" THEN s ELSE Unmounted]
              /\ subscribers = subscribe(EmptyMap, cb)
    /\ inflight = EmptyBag
    /\ ticks = 0
    /\ steps = 0
    /\ last = Last("init", "none", <<>>, Null, NoneNotified, World(binding, <<>>))
    /\ MutInit
    /\ SignedOut

FreshNext ==
    \/ \E k \in BindingKeys : Notify(k)
    \/ \E b \in Bindings, k \in BindingKeys, en \in BOOLEAN : Mount(b, k, en)

FreshnessSpec == FreshInit /\ [][FreshNext]_vars

MutationSpec == Init /\ [][MutationNext]_vars

------------------------------------------------------------------------------
(* The onSuccess handlers of the newsletter mutations of useNewsletters,   *)
(* run against a store that holds entries of the user's namespace and of   *)
(* another user's list                                                     *)

\* the store, the instances and the callbacks invoked so far inside a handler
Handler(cache, W, notified) == [cache |-> cache, W |-> W, notified |-> notified]

\* queryClient.invalidateQueries({ queryKey }) inside a handler
invalidated(H, pattern) ==
    LET r == invalidateCache(pattern, H.cache, subscribers)
    IN  Handler(r.cache,
                runCallbacks(Flatten(CacheKeySeq, r.notified), H.W, r.cache, now),
                [k \in CacheKeys |-> H.notified[k] \o r.notified[k]])

\* queryClient.setQueryData(queryKey, d) inside a handler
stored(H, queryKey, d) ==
    LET cacheKey == createCacheKey(queryKey)
        cache == MapSet(H.cache, cacheKey, Entry(d, now, NoError))
        cbs == SubsOf(subscribers, cacheKey)
    IN  Handler(cache, runCallbacks(cbs, H.W, cache, now),
                [k \in CacheKeys |->
                    IF k = cacheKey THEN H.notified[k] \o cbs ELSE H.notified[k]])

\* onSuccess of create, generateContent and send
bothInvalidated(H, uid) ==
    invalidated(invalidated(H, listKey(uid)), <<newsletters, uid, single>>)

\* variant: the result is stored before the invalidations
updateOnSuccessStoreFirst(H, uid, id, result) ==
    IF id # 0
    THEN bothInvalidated(stored(H, singleKey(uid, id), result), uid)
    ELSE bothInvalidated(H, uid)

\* onSuccess of updateMutation
updateOnSuccess(H, uid, id, result) ==
    IF id # 0
    THEN stored(bothInvalidated(H, uid), singleKey(uid, id), result)
    ELSE bothInvalidated(H, uid)

\* onSuccess of deleteMutation: the second call is part of the comment
deleteOnSuccess(H, uid) == invalidated(H, listKey(uid))

MutationNames == {"create", "delete", "generateContent", "send"}

\* mutate calls onSuccess(result); the renders follow
OnSuccess(op, key, arg, H) ==
    LET W == renderChanged(BindingOrder, binding, H.W, H.cache, now)
    IN  Finish(W, H.cache, subscribers, inflight,
               Last(op, "none", key, arg, H.notified, W))

Start == Handler(globalCache, World(binding, <<>>), NoneNotified)

Succeed(op) ==
    OnSuccess(op, listKey(UserId), Null,
              IF op = "delete" THEN deleteOnSuccess(Start, UserId)
              ELSE bothInvalidated(Start, UserId))

Update(id, result) ==
    OnSuccess("update", singleKey(UserId, id), result,
              updateOnSuccess(Start, UserId, id, result))

\* the keys the store holds entries for at the start
StoredKeys == {listKey(UserId), listKey(<<"4", "2">>)} \cup SingleKeys

NewsletterInit ==
    /\ \E S \in SUBSET StoredKeys :
          globalCache = [k \in { createCacheKey(q) : q \in S } |->
                            Entry("v2", 0, NoError)]
    /\ subscribers = EmptyMap
    /\ binding = [b \in Bindings |-> Unmounted]
    /\ inflight = EmptyBag
    /\ now = 0
    /\ ticks = 0
    /\ steps = 0
    /\ last = Last("init", "none", <<>>, Null, NoneNotified, World(binding, <<>>))
    /\ MutInit
    /\ SignedOut

NewsletterNext ==
    \/ \E b \in Bindings, k \in {listKey(UserId)} \cup SingleKeys :
          Mount(b, k, TRUE)
    \/ \E f \in BagToSet(inflight), o \in Outcomes : Resolve(f, o)
    \/ \E op \in MutationNames : Succeed(op)
    \/ \E id \in NewsletterIds : Update(id, "v1")

NewsletterSpec == NewsletterInit /\ [][NewsletterNext]_vars

------------------------------------------------------------------------------
(* The token side alone *)

\* the page after its load, with any token or none left in localStorage
TokenInit ==
    /\ \E storedToken \in Tokens \cup {Null} :
          /\ authToken = loaded(storedToken).authToken
          /\ Authorization = loaded(storedToken).Authorization
          /\ auth_token = loaded(storedToken).auth_token
    /\ pathname \in {LoginPath, DashboardPath}
    /\ requests = 0
    /\ sent = NoHeader
    /\ QueryInit
    /\ MutInit

TokenNext ==
    \/ \E token \in Tokens \cup {EmptyString, Null} : setAuthToken(token)
    \/ clearAuthToken
    \/ Send
    \/ \E status \in Statuses : Respond(status)
    \/ \E path \in {LoginPath, DashboardPath} : Push(path)

TokenSpec == TokenInit /\ [][TokenNext]_vars

------------------------------------------------------------------------------
(* Properties *)

CurrentKey(s) == createCacheKey(s.queryKey)

\* instance b mounts, or renders with a queryKey that gives another cacheKey
Activates(b) ==
    /\ binding'[b].mounted
    /\ ~binding[b].mounted \/ CurrentKey(binding'[b]) # CurrentKey(binding[b])

\* number of times the subscriber callback of b ran in the step
InvokedTimes(b) == binding'[b].forceUpdateRef - binding[b].forceUpdateRef

\* number of callbacks of b registered under the keys ks
RECURSIVE Registered(_, _, _)
Registered(ks, subs, b) ==
    IF ks = {} THEN 0
    ELSE LET k == CHOOSE x \in ks : TRUE
         IN  Occurrences(Names(SubsOf(subs, k)), b) + Registered(ks \ {k}, subs, b)

Fetched(l, b) == CountOf(l.started, b)

\* the store holds an entry for K whose age at time t is below the TTL
StoredFresh(cache, K, t) ==
    /\ K \in DOMAIN cache
    /\ t - cache[K].timestamp < 300000

\* C1: invalidateQueries with a queryKey deletes exactly the stored keys that
\* start with the joined prefix, leaves the other entries as they were, and
\* invokes the callbacks registered under the deleted keys and no others.
C1_InvalidatePrefix ==
    [][(last'.op = "invalidateQueries" /\ last'.key # NoQueryKey) =>
        LET P == createCacheKey(last'.key)
            removed == { k \in DOMAIN globalCache : startsWith(k, P) }
        IN  /\ DOMAIN globalCache' = (DOMAIN globalCache) \ removed
            /\ \A k \in DOMAIN globalCache' : globalCache'[k] = globalCache[k]
            /\ \A k \in CacheKeys :
                  last'.notified[k] =
                      IF k \in removed THEN Names(SubsOf(subscribers, k)) ELSE <<>>
            /\ \A b \in Bindings :
                  InvokedTimes(b) = Registered(removed, subscribers, b)]_vars

\* an invalidation that deleted a subscribed key and called its subscriber,
\* while an entry whose key does not start with the prefix stayed
C1_Witness ==
    /\ last.op = "invalidateQueries"
    /\ last.key # NoQueryKey
    /\ \E k \in CacheKeys : last.notified[k] # <<>>
    /\ DOMAIN globalCache # {}

\* C2: an instance that activates with enabled=true on a key that has no
\* stored entry invokes queryFn exactly once in that activation and is
\* loading, whatever the first segment of the key.
C2_ActivationFetchesOnce ==
    [][\A b \in Bindings :
        (/\ Activates(b)
         /\ binding'[b].enabled
         /\ CurrentKey(binding'[b]) \notin DOMAIN globalCache)
        => /\ Fetched(last', b) = 1
           /\ binding'[b].isLoading]_vars

\* instance b is mounted and enabled, and so was it when it subscribed
EnabledSubscriber(cb) ==
    /\ binding[cb.b].mounted
    /\ binding[cb.b].enabled
    /\ cb.enabled

\* C3: when a queryFn started for key K resolves, the result is stored under
\* K and every enabled instance subscribed to K shows the stored value.
C3_FetchSuccessReachesSubscribers ==
    (last.op = "resolve" /\ last.arg \in Values) =>
        /\ last.key \in DOMAIN globalCache
        /\ globalCache[last.key].data = last.arg
        /\ \A i \in 1..Len(SubsOf(subscribers, last.key)) :
              EnabledSubscriber(subscribers[last.key][i]) =>
                  binding[subscribers[last.key][i].b].data = last.arg

\* C4: after invalidateQueries deleted key K, every instance subscribed to K
\* whose enabled option is true is loading and has invoked queryFn.
C4_InvalidateRefetchesEnabled ==
    (last.op = "invalidateQueries" /\ last.key # NoQueryKey) =>
        \A k \in CacheKeys : \A i \in 1..Len(last.notified[k]) :
            LET b == last.notified[k][i]
            IN  binding[b].enabled =>
                    /\ binding[b].isLoading
                    /\ Fetched(last, b) >= 1

\* C5: setQueryData(K, v) leaves an entry for K with data v and no error,
\* and invokes each callback registered under K exactly once and no callback
\* registered under another key.
C5_SetQueryData ==
    [][last'.op = "setQueryData" =>
        LET K == createCacheKey(last'.key)
        IN  /\ K \in DOMAIN globalCache'
            /\ globalCache'[K].data = last'.arg
            /\ globalCache'[K].error = NoError
            /\ \A k \in CacheKeys :
                  last'.notified[k] =
                      IF k = K THEN Names(SubsOf(subscribers, K)) ELSE <<>>
            /\ \A b \in Bindings :
                  InvokedTimes(b) = Registered({K}, subscribers, b)]_vars

\* a setQueryData on a key with a subscriber while another key, which the
\* set key is a string prefix of or not, has a subscriber too
C5_Witness ==
    /\ last.op = "setQueryData"
    /\ last.notified[createCacheKey(last.key)] # <<>>
    /\ \E k \in DOMAIN subscribers : k # createCacheKey(last.key)

\* C6: an instance that activates on a key whose stored entry is fresh takes
\* the stored data and error and does not invoke queryFn.
C6_FreshActivationAdopts ==
    [][\A b \in Bindings :
        (Activates(b) /\ StoredFresh(globalCache, CurrentKey(binding'[b]), now)) =>
            LET entry == globalCache[CurrentKey(binding'[b])]
            IN  /\ binding'[b].data = entry.data
                /\ binding'[b].error = errorOrNull(entry)
                /\ Fetched(last', b) = 0
                /\ inflight' = inflight]_vars

\* an instance mounted on an entry that has aged but is still fresh
C6_Witness ==
    /\ last.op = "mount"
    /\ StoredFresh(globalCache, createCacheKey(last.key), now)
    /\ now > globalCache[createCacheKey(last.key)].timestamp
    /\ binding[last.b].data \in Values
    /\ binding[last.b].data = globalCache[createCacheKey(last.key)].data
    /\ inflight = EmptyBag

\* C7: when a queryFn started for key K rejects, the error is stored under K
\* and every enabled instance subscribed to K shows that error.
C7_FetchFailureReachesSubscribers ==
    (last.op = "resolve" /\ last.arg \in Errors) =>
        /\ last.key \in DOMAIN globalCache
        /\ globalCache[last.key].error = last.arg
        /\ \A i \in 1..Len(SubsOf(subscribers, last.key)) :
              EnabledSubscriber(subscribers[last.key][i]) =>
                  binding[subscribers[last.key][i].b].error = last.arg

\* the errored entry of K is in the store, fresh, before and after the step
C8_ErroredEntryStays(K) ==
    /\ StoredFresh(globalCache, K, now)
    /\ globalCache[K].error # NoError
    /\ StoredFresh(globalCache', K, now')
    /\ globalCache'[K] = globalCache[K]

\* C8: while a fresh errored entry is stored for K, queryFn is invoked for K
\* only by an explicit refetch(), and an instance activating on K takes the
\* stored error without fetching.
C8_NoAutomaticRetry ==
    [][\A K \in CacheKeys : C8_ErroredEntryStays(K) =>
        /\ \A i \in 1..Len(last'.started) :
              last'.started[i].cacheKey = K => last'.started[i].cause = "refetch"
        /\ \A b \in Bindings :
              (Activates(b) /\ CurrentKey(binding'[b]) = K) =>
                  /\ binding'[b].error = globalCache[K].error
                  /\ Fetched(last', b) = 0]_vars

\* an instance mounted, enabled, on a key holding a fresh errored entry
C8_Witness ==
    /\ last.op = "mount"
    /\ last.arg = TRUE
    /\ StoredFresh(globalCache, createCacheKey(last.key), now)
    /\ globalCache[createCacheKey(last.key)].error \in Errors
    /\ binding[last.b].error = globalCache[createCacheKey(last.key)].error
    /\ last.started = <<>>

\* call i settles in the step
Settles(i) == ~Settled(i) /\ calls'[i].returned # Pending

\* no call other than i is awaiting its mutationFn
NoOtherPending(i) == \A j \in 1..Len(calls) : j # i => Settled(j)

\* C9: when mutationFn rejects with e, onError (if given) is invoked once
\* with e, onSuccess is not invoked, mutateAsync re-throws e, and, no other
\* call being under way, the runner's error is e and isLoading is false.
C9_WriteRejects ==
    [][\A i \in 1..Len(calls) :
        (Settles(i) /\ calls'[i].outcome \in WriteErrors) =>
            LET e == calls'[i].outcome
            IN  /\ calls'[i].onErrorCalls =
                      IF calls'[i].onError = "absent" THEN <<>> ELSE <<e>>
                /\ calls'[i].onSuccessCalls = <<>>
                /\ calls'[i].fn = "mutateAsync" => calls'[i].returned = Rejected(e)
                /\ NoOtherPending(i) => mut'.error = e /\ ~mut'.isLoading]_vars

\* a single mutateAsync call whose write was rejected and reported to onError
C9_Witness ==
    /\ Len(calls) = 1
    /\ calls[1].fn = "mutateAsync"
    /\ calls[1].outcome \in WriteErrors
    /\ calls[1].onErrorCalls = <<calls[1].outcome>>
    /\ calls[1].returned = Rejected(calls[1].outcome)
    /\ mut = [isLoading |-> FALSE, error |-> calls[1].outcome]

\* C10: a callback that throws does not change the outcome: with a throwing
\* onSuccess the call returns the write's result, the runner's error is left
\* as it was (null for a single call) and onError is not invoked; with a
\* throwing onError the caller gets the write's error.
C10_CallbackThrowKeepsOutcome ==
    [][\A i \in 1..Len(calls) : Settles(i) =>
        /\ (calls'[i].outcome \in Results /\ calls'[i].onSuccess = "throws") =>
              /\ calls'[i].returned = Fulfilled(calls'[i].outcome)
              /\ calls'[i].onErrorCalls = <<>>
              /\ mut'.error = mut.error
              /\ Len(calls) = 1 => mut'.error = Null
        /\ (calls'[i].outcome \in WriteErrors /\ calls'[i].onError = "throws") =>
              calls'[i].returned = Rejected(calls'[i].outcome)]_vars

\* one call whose onSuccess threw and one whose onError threw, both settled
C10_Witness ==
    \E i, j \in 1..Len(calls) :
        /\ calls[i].outcome \in Results
        /\ calls[i].onSuccess = "throws"
        /\ calls[i].returned = Fulfilled(calls[i].outcome)
        /\ calls[j].outcome \in WriteErrors
        /\ calls[j].onError = "throws"
        /\ calls[j].returned = Rejected(calls[j].outcome)

\* C11: a write started through mutate that fails is reported through the
\* runner's error and onError only, the promise mutate gave its caller does
\* not reject; mutateAsync gives the result or re-throws the error.
C11_MutateFireAndForget ==
    \A i \in 1..Len(calls) : Settled(i) =>
        /\ (calls[i].fn = "mutate" /\ calls[i].outcome \in WriteErrors) =>
              /\ calls[i].returned.status # "rejected"
              /\ calls[i].onErrorCalls =
                    IF calls[i].onError = "absent" THEN <<>> ELSE <<calls[i].outcome>>
        /\ calls[i].fn = "mutateAsync" =>
              calls[i].returned =
                  IF calls[i].outcome \in WriteErrors
                  THEN Rejected(calls[i].outcome)
                  ELSE Fulfilled(calls[i].outcome)

\* String.prototype.split(':') of a cache key
RECURSIVE Segments(_)
Segments(str) ==
    IF \A i \in 1..Len(str) : str[i] # Colon THEN <<str>>
    ELSE LET i == CHOOSE x \in 1..Len(str) :
                      str[x] = Colon /\ \A y \in 1..(x - 1) : str[y] # Colon
         IN  <<SubSeq(str, 1, i - 1)>> \o Segments(SubSeq(str, i + 1, Len(str)))

\* the segment list P is a prefix of the segment list S
IsSegmentPrefix(P, S) ==
    /\ Len(P) <= Len(S)
    /\ SubSeq(S, 1, Len(P)) = P

\* C12: invalidateQueries with prefix segments P deletes a stored key only if
\* P is a segment-wise prefix of the key's segments; a key that shares only
\* a string prefix across a segment boundary stays with its entry untouched.
C12_SegmentWisePrefix ==
    [][(last'.op = "invalidateQueries" /\ last'.key # NoQueryKey) =>
        \A k \in DOMAIN globalCache :
            ~IsSegmentPrefix(FilterBoolean(last'.key), Segments(k)) =>
                /\ k \in DOMAIN globalCache'
                /\ globalCache'[k] = globalCache[k]
                /\ last'.notified[k] = <<>>]_vars

\* C13: an instance whose enabled option is false does not invoke queryFn,
\* whatever the step: every queryFn invocation of a step is made by an
\* instance whose enabled option is true.
C13_NoFetchWhileDisabled ==
    \A i \in 1..Len(last.started) :
        /\ binding[last.started[i].b].mounted
        /\ binding[last.started[i].b].enabled

\* invalidateQueries without a queryKey, or clear
IsClearAll(l) ==
    \/ l.op = "clear"
    \/ l.op = "invalidateQueries" /\ l.key = NoQueryKey

\* C14: invalidateQueries without a queryKey and clear leave the store empty
\* whatever it held and invoke every callback registered under every key,
\* with or without a stored entry; a second call right after the first
\* leaves the store as the first left it.
C14_ClearAll ==
    [][IsClearAll(last') =>
        /\ globalCache' = EmptyMap
        /\ \A k \in CacheKeys : last'.notified[k] = Names(SubsOf(subscribers, k))
        /\ \A b \in Bindings : InvokedTimes(b) = Registered(CacheKeys, subscribers, b)
        /\ IsClearAll(last) => globalCache' = globalCache]_vars

\* the store was cleared twice in a row after an instance mounted on a key
\* that never held an entry: its callback ran both times
C14_Witness ==
    /\ IsClearAll(last)
    /\ steps = 3
    /\ globalCache = EmptyMap
    /\ \E b \in Bindings :
          /\ binding[b].mounted
          /\ binding[b].queryKey[1] = users
          /\ binding[b].data = Undefined
          /\ binding[b].forceUpdateRef = 2
          /\ last.notified[CurrentKey(binding[b])] = <<b>>

\* number of queryFn invocations of instance b in a step that have the cause
RECURSIVE CausedBy(_, _, _)
CausedBy(started, b, cause) ==
    IF started = <<>> THEN 0
    ELSE (IF Head(started).b = b /\ Head(started).cause = cause THEN 1 ELSE 0)
         + CausedBy(Tail(started), b, cause)

\* C15: an entry stored at time T is taken as fresh by a read at time t when
\* t - T < 300000 and as stale when t - T >= 300000, by the subscriber
\* callback and by the activation effect alike: a fresh entry is adopted and
\* nothing is fetched, a stale one is not adopted and is fetched for when
\* the reader is enabled (an activation on 'newsletters' shows [] instead).
C15_FreshnessBoundary ==
    [][\A b \in Bindings :
        LET K == CurrentKey(binding'[b])
            age == now - globalCache[K].timestamp
            adopted == /\ binding'[b].data = globalCache[K].data
                       /\ binding'[b].error = errorOrNull(globalCache[K])
        IN  (binding'[b].mounted /\ K \in DOMAIN globalCache) =>
              /\ (last'.op = "notify" /\ InvokedTimes(b) = 1) =>
                    IF age < 300000
                    THEN adopted /\ Fetched(last', b) = 0
                    ELSE CausedBy(last'.started, b, "callback") =
                             IF binding[b].callback.enabled THEN 1 ELSE 0
              /\ Activates(b) =>
                    IF age < 300000
                    THEN adopted /\ Fetched(last', b) = 0
                    ELSE IF binding'[b].queryKey[1] = newsletters
                         THEN binding'[b].data = EmptyArray /\ Fetched(last', b) = 0
                         ELSE /\ binding'[b].data = Undefined
                              /\ Fetched(last', b) =
                                     IF binding'[b].enabled THEN 1 ELSE 0]_vars

\* at age 300000 exactly, an instance that activated on the entry fetched,
\* and its callback, notified for the first time afterwards, fetched as well
C15_Witness ==
    /\ last.op = "notify"
    /\ last.key[1] = users
    /\ createCacheKey(last.key) \in DOMAIN globalCache
    /\ now - globalCache[createCacheKey(last.key)].timestamp = 300000
    /\ \E b \in Bindings :
          /\ binding[b].forceUpdateRef = 1
          /\ CausedBy(last.started, b, "callback") = 1
          /\ CausedBy(last.started, b, "effect") = 0
          /\ \E f \in BagToSet(inflight) : f.b = b /\ f.cause = "effect"

\* C16: removeQueries(K) deletes the entry stored under exactly K and no
\* other, invokes no subscriber callback, starts no fetch and leaves the
\* other entries, the registry and every instance as they were.
C16_RemoveIsSilent ==
    [][last'.op = "removeQueries" =>
        LET K == createCacheKey(last'.key)
        IN  /\ DOMAIN globalCache' = (DOMAIN globalCache) \ {K}
            /\ \A k \in DOMAIN globalCache' : globalCache'[k] = globalCache[k]
            /\ \A k \in CacheKeys : last'.notified[k] = <<>>
            /\ \A b \in Bindings : InvokedTimes(b) = 0
            /\ last'.started = <<>>
            /\ inflight' = inflight
            /\ subscribers' = subscribers
            /\ binding' = binding]_vars

\* the entry of a key was removed while an instance that had adopted it is
\* subscribed to the key, and the entry of another key is still stored
C16_Witness ==
    /\ last.op = "removeQueries"
    /\ createCacheKey(last.key) \notin DOMAIN globalCache
    /\ DOMAIN globalCache # {}
    /\ \E b \in Bindings :
          /\ binding[b].mounted
          /\ binding[b].enabled
          /\ CurrentKey(binding[b]) = createCacheKey(last.key)
          /\ binding[b].data \in SetValues
          /\ ~binding[b].isLoading

\* C17: the registry maps no key to an empty set of callbacks: a key is in
\* the registry only while at least one callback is registered under it.
C17_NoEmptySubscriberSet ==
    \A k \in DOMAIN subscribers : Len(subscribers[k]) > 0

\* the only subscriber of a key unmounted: the key is gone from the registry
\* while another key still has its subscriber
C17_Witness ==
    /\ last.op = "unmount"
    /\ createCacheKey(last.key) \notin DOMAIN subscribers
    /\ DOMAIN subscribers # {}

\* C18: refetch() called on an enabled instance invokes queryFn exactly once
\* for that call and leaves the instance loading, whether or not the entry
\* of its key is fresh; the outcome of a fetch replaces the entry of the key.
C18_RefetchForcesOneFetch ==
    [][/\ (last'.op = "refetch" /\ binding[last'.b].enabled) =>
              /\ Fetched(last', last'.b) = 1
              /\ binding'[last'.b].isLoading
       /\ last'.op = "resolve" =>
              /\ last'.key \in DOMAIN globalCache'
              /\ globalCache'[last'.key] = settledEntry(last'.arg, now)]_vars

\* position of x in a sequence without repetitions, 0 when it is not in it
IndexOf(seq, x) ==
    IF \E i \in 1..Len(seq) : seq[i] = x
    THEN CHOOSE i \in 1..Len(seq) : seq[i] = x
    ELSE 0

\* the callbacks of old that are still in new keep their order, and the
\* callbacks that are new come after them
SubscriptionOrderKept(old, new) ==
    \A i, j \in 1..Len(new) :
        (i < j /\ IndexOf(old, new[j]) > 0) =>
            /\ IndexOf(old, new[i]) > 0
            /\ IndexOf(old, new[i]) < IndexOf(old, new[j])

\* a store operation that notifies: setQueryData, invalidateQueries, clear
Notifies(l) == l.op \in {"setQueryData", "invalidateQueries", "clear"}

\* C19: the registry keeps the callbacks of a key in the order in which they
\* subscribed, and a notification of the key invokes all of them in that
\* order inside the call, each once before the call returns.
C19_NotifiesInSubscriptionOrder ==
    [][/\ \A k \in CacheKeys :
              SubscriptionOrderKept(SubsOf(subscribers, k), SubsOf(subscribers', k))
       /\ Notifies(last') =>
              /\ subscribers' = subscribers
              /\ \A k \in CacheKeys :
                    \/ last'.notified[k] = <<>>
                    \/ last'.notified[k] = Names(SubsOf(subscribers, k))
              /\ \A b \in Bindings :
                    InvokedTimes(b) =
                        Registered({k \in CacheKeys : last'.notified[k] # <<>>},
                                   subscribers, b)]_vars

\* instance b2 subscribed to a key before instance b1 moved to it, and a
\* notification of the key called the callback of b2 first, then that of b1
C19_Witness ==
    /\ Notifies(last)
    /\ \E k \in CacheKeys :
          /\ last.notified[k] = <<"b2", "b1">>
          /\ binding["b1"].forceUpdateRef = 1
          /\ binding["b2"].forceUpdateRef = 1

\* C20: when invalidateQueries or clear deletes the entry of key K, every
\* enabled instance subscribed to K (enabled when it subscribed, too) invokes
\* queryFn exactly once in that call, not zero times and not twice.
C20_OneFetchPerInvalidation ==
    [][last'.op \in {"invalidateQueries", "clear"} =>
        \A K \in (DOMAIN globalCache) \ (DOMAIN globalCache') :
            \A i \in 1..Len(SubsOf(subscribers, K)) :
                LET cb == subscribers[K][i]
                IN  (binding[cb.b].enabled /\ cb.enabled) =>
                        Fetched(last', cb.b) = 1]_vars

\* C21: an instance whose latest fetch failed, with no other fetch of its
\* own under way, shows isLoading=false, data=undefined and the error: no
\* data of an earlier fetch is left in its view.
C21_ErroredViewHasNoData ==
    (/\ last.op = "resolve"
     /\ last.arg \in Errors
     /\ binding[last.b].mounted
     /\ ~HasInflight(last.b))
    => /\ ~binding[last.b].isLoading
       /\ binding[last.b].error = last.arg
       /\ binding[last.b].data = Undefined

\* C22: an instance whose enabled option is false shows exactly
\* {data: undefined, isLoading: false, error: null}, whatever the store
\* holds for its key and whatever the instance showed before.
C22_IdleViewIsEmpty ==
    \A b \in Bindings :
        (binding[b].mounted /\ ~binding[b].enabled) =>
            /\ binding[b].data = Undefined
            /\ ~binding[b].isLoading
            /\ binding[b].error = Null

\* C23: once all mutate calls of the instance have settled, isLoading is
\* false and error is the error of the call that settled last if that call
\* failed, and null if it succeeded.
C23_LastFinishingCallWins ==
    (Len(calls) > 0 /\ \A i \in 1..Len(calls) : Settled(i)) =>
        \A i \in 1..Len(calls) :
            calls[i].order = Len(calls) =>
                /\ ~mut.isLoading
                /\ mut.error = IF calls[i].outcome \in WriteErrors
                               THEN calls[i].outcome
                               ELSE Null

\* C24: nothing orders the results of fetches: whenever a fetch settles, its
\* outcome replaces the entry of the key it was started for, whatever is
\* stored there and whenever the fetch was started, so that the result of a
\* fetch started before an invalidation can replace the newer result of the
\* refetch that the invalidation triggered.
C24_LateResultOverwrites ==
    [][last'.op = "resolve" =>
        /\ DOMAIN globalCache' = (DOMAIN globalCache) \cup {last'.key}
        /\ globalCache'[last'.key] = settledEntry(last'.arg, now)
        /\ \A k \in DOMAIN globalCache :
              k # last'.key => globalCache'[k] = globalCache[k]]_vars

\* the lost update: an instance mounted and fetched, an invalidation made its
\* callback fetch again, the second fetch stored v2, and then the fetch of
\* the mount settled with v1 and replaced v2
C24_Witness ==
    /\ last.op = "resolve"
    /\ last.cause = "effect"
    /\ last.replaced = "v2"
    /\ last.arg = "v1"
    /\ last.key = createCacheKey(<<users, NullSeg, <<"4">>>>)
    /\ globalCache[last.key].data = "v1"
    /\ binding[last.b].forceUpdateRef = 1
    /\ inflight = EmptyBag
    /\ steps = 4

\* C25: the registry holds, for each mounted instance, exactly one callback,
\* registered under the instance's current key, and nothing else: no
\* callback under a key the instance left and none of an unmounted instance;
\* so a notification invokes only callbacks of instances mounted on the key.
C25_RegistryMatchesInstances ==
    /\ \A b \in Bindings :
          Registered(CacheKeys, subscribers, b) = IF binding[b].mounted THEN 1 ELSE 0
    /\ \A k \in DOMAIN subscribers : \A i \in 1..Len(subscribers[k]) :
          LET cb == subscribers[k][i]
          IN  /\ binding[cb.b].mounted
              /\ cb.cacheKey = k
              /\ CurrentKey(binding[cb.b]) = k
              /\ binding[cb.b].callback = cb
    /\ \A k \in CacheKeys : \A i \in 1..Len(last.notified[k]) :
          /\ binding[last.notified[k][i]].mounted
          /\ CurrentKey(binding[last.notified[k][i]]) = k

\* an instance mounted on a newsletters key (it still shows the placeholder
\* of that key) moved to a users key, then the key it had left was notified:
\* nobody was called and the instance is registered under its new key only
C25_Witness ==
    /\ last.op = "setQueryData"
    /\ last.key = <<newsletters, <<"4", "2">>>>
    /\ last.notified[createCacheKey(last.key)] = <<>>
    /\ \E b \in Bindings :
          /\ binding[b].mounted
          /\ binding[b].queryKey[1] = users
          /\ binding[b].data = EmptyArray
          /\ binding[b].forceUpdateRef = 0
          /\ DOMAIN subscribers = {CurrentKey(binding[b])}

\* C26: a fetch that settles after its instance unmounted or moved to
\* another key writes its result under the key it was started for and under
\* no other, leaves an unmounted instance alone, and does not put its value
\* into the view of an instance that is on another key by now: that view
\* keeps its data or takes the data stored for its own key.
C26_LateResultKeepsToItsKey ==
    [][last'.op = "resolve" =>
        LET b == last'.b
            K == last'.key
            own == CurrentKey(binding'[b])
        IN  /\ DOMAIN globalCache' = (DOMAIN globalCache) \cup {K}
            /\ \A k \in DOMAIN globalCache : k # K => globalCache'[k] = globalCache[k]
            /\ ~binding[b].mounted => binding' = binding
            /\ (binding[b].mounted /\ CurrentKey(binding[b]) # K) =>
                  \/ binding'[b].data = binding[b].data
                  \/ /\ own \in DOMAIN globalCache'
                     /\ binding'[b].data = globalCache'[own].data]_vars

\* C27: in every reachable state the isLoading of a mounted instance is true
\* exactly when at least one fetch that this instance started is still in
\* flight.
C27_LoadingIffFetchInFlight ==
    \A b \in Bindings :
        binding[b].mounted => (binding[b].isLoading <=> HasInflight(b))

\* C28: once clear() has run at logout, no fetch that is still in flight
\* then, whether it was started before the clear or by a callback that the
\* clear itself notified, puts an entry into the store when it settles.
C28_ClearedForGood ==
    [][(last.op = "clear" /\ last'.op = "resolve") =>
           last'.key \notin DOMAIN globalCache']_vars

\* the keys of the user's newsletter namespace: the list and every single
\* newsletter
Namespace(uid) ==
    { createCacheKey(listKey(uid)) } \cup
    { createCacheKey(singleKey(uid, id)) : id \in NewsletterIds \ {0} }

\* C29: when onSuccess of a newsletter mutation (create, update, delete,
\* generate content, send) returns, the store holds no entry of the user's
\* newsletter namespace, the list and every single newsletter, except after
\* update, where the only such entry is the single entry of the updated
\* newsletter, holding the mutation result.
C29_NamespaceRemoved ==
    /\ last.op \in MutationNames =>
          Namespace(UserId) \cap DOMAIN globalCache = {}
    /\ last.op = "update" =>
          /\ Namespace(UserId) \cap DOMAIN globalCache \subseteq {createCacheKey(last.key)}
          /\ last.key # singleKey(UserId, 0) =>
                /\ createCacheKey(last.key) \in DOMAIN globalCache
                /\ globalCache[createCacheKey(last.key)] = Entry(last.arg, now, NoError)

\* delete removed the stored list and a stored single entry, and their
\* subscribers were called
C29_Witness ==
    /\ last.op = "delete"
    /\ last.notified[createCacheKey(listKey(UserId))] # <<>>
    /\ last.notified[createCacheKey(singleKey(UserId, 1))] # <<>>
    /\ Namespace(UserId) \cap DOMAIN globalCache = {}

\* what localStorage holds, as the header it stands for
StoredHeader == IF Truthy(auth_token) THEN Bearer(auth_token) ELSE NoHeader

\* C30: after any sequence of setAuthToken(t), clearAuthToken() and 401
\* responses, the token in localStorage and the default Authorization header
\* agree (both carry the same token, or both are absent), and a request is
\* not sent with a token that is no longer in localStorage.
C30_TokenStorageAgrees ==
    /\ Authorization = StoredHeader
    /\ last.op = "send" => sent = StoredHeader

====
